---- MODULE Spec2Model ----
(***************************************************************************)
(* Model of the jocko broker: the request dispatcher (Broker.Run), the     *)
(* controller path (handleCreateTopic, handleDeleteTopics, createTopic,    *)
(* buildPartitions), the partition role machine (handleLeaderAndISR,       *)
(* startReplica, becomeLeader, becomeFollower) and the data path           *)
(* (handleProduce, handleFetch, handleOffsets) of one broker.  The rest of *)
(* the cluster (Raft, the gossip layer, the other brokers) is environment. *)
(***************************************************************************)
EXTENDS Integers, Sequences, FiniteSets, TLC

\* ------------------------------------------------------------------ bounds
MaxBrokerId == 2          \* broker ids are 0..MaxBrokerId
MaxPartitions == 2        \* NumPartitions of a CreateTopics entry is 0..MaxPartitions
MaxReplicationFactor == 3 \* ReplicationFactor of an entry is 0..MaxReplicationFactor
MaxLogLen == 2            \* records a commit log holds at most
MaxCorrelationId == 2     \* correlation ids are 1..MaxCorrelationId
MaxConn == 2              \* client connections are 1..MaxConn
MaxEntries == 2           \* entries (topics, partitions) a request names at most
MaxLeaderEpoch == 1       \* leader epochs run over 0..MaxLeaderEpoch

BrokerIds == 0..MaxBrokerId
Topics == {"t", "u"}
PartIds == 0..(MaxPartitions - 1)
\* The nil pointer / absent row: a record no value of the model equals.
Nil == [nil |-> TRUE]

\* ------------------------------------------------------------------ helpers
Max(a, b) == IF a > b THEN a ELSE b
Min(a, b) == IF a < b THEN a ELSE b
Range(s) == {s[i] : i \in 1..Len(s)}

\* contains reports whether broker id r occurs in the list rs.
contains(rs, r) == \E i \in 1..Len(rs) : rs[i] = r

RECURSIVE SortedSeq(_)
\* The ids of a set in increasing order.
SortedSeq(S) ==
    IF S = {} THEN <<>>
    ELSE LET m == CHOOSE x \in S : \A y \in S : x <= y
         IN <<m>> \o SortedSeq(S \ {m})

\* brokerLookup.Brokers(): the known brokers, in broker-id order.
Brokers(lookup) == SortedSeq(lookup)

\* ------------------------------------------------- partition assignment
\* The follower walk of buildPartitions: the for loop
\*   for replica := r; len(replicas) < replicationFactor; replica++ { ... }
\* idle counts the iterations since the last append; a whole round over the
\* member indexes without an append repeats for ever.
RECURSIVE FollowerWalk(_, _, _, _, _, _)
FollowerWalk(replicas, replica, leader, replicationFactor, memCount, idle) ==
    IF ~(Len(replicas) < replicationFactor) THEN [out |-> "ok", AR |-> replicas]
    ELSE IF idle >= memCount THEN [out |-> "spin", AR |-> replicas]
    ELSE LET added == replica # leader
             rs == IF added THEN Append(replicas, replica) ELSE replicas
             nxt == IF replica + 1 = memCount THEN 0 ELSE replica + 1
         IN FollowerWalk(rs, nxt, leader, replicationFactor, memCount,
                         IF added THEN 0 ELSE idle + 1)

\* One iteration of the partition loop of buildPartitions; rnd is the value
\* of rand.Int31n(memCount).
BuildPartition(topic, i, mems, replicationFactor, rnd) ==
    LET memCount == Len(mems)
        leader == mems[(i % memCount) + 1]
        w == FollowerWalk(<<leader>>, rnd, leader, replicationFactor, memCount, 0)
    IN [out |-> w.out,
        p |-> [Topic |-> topic, ID |-> i, Partition |-> i, Leader |-> leader,
               AR |-> w.AR, ISR |-> w.AR, ControllerEpoch |-> 0, LeaderEpoch |-> 0]]

RECURSIVE BuildFrom(_, _, _, _, _, _, _)
BuildFrom(topic, i, partitionsCount, mems, replicationFactor, rnd, acc) ==
    IF ~(i < partitionsCount) THEN [out |-> "ok", ps |-> acc]
    ELSE IF Len(mems) = 0 THEN [out |-> "panic", ps |-> acc]
    ELSE LET b == BuildPartition(topic, i, mems, replicationFactor,
                                 rnd[i] % Len(mems))
         IN IF b.out # "ok" THEN [out |-> b.out, ps |-> acc]
            ELSE BuildFrom(topic, i + 1, partitionsCount, mems, replicationFactor,
                           rnd, Append(acc, b.p))

\* buildPartitions(topic, partitionsCount, replicationFactor) over the member
\* list mems; rnd[i] % memCount is the value of rand.Int31n for partition i.
\* out is "ok", "panic" (i % 0) or "spin" (the follower loop never ends).
buildPartitions(topic, partitionsCount, replicationFactor, mems, rnd) ==
    BuildFrom(topic, 0, partitionsCount, mems, replicationFactor, rnd, <<>>)

\* ------------------------------------------------------------ error codes
ErrNone == "ErrNone"
ErrUnknown == "ErrUnknown"
ErrOffsetOutOfRange == "ErrOffsetOutOfRange"
ErrUnknownTopicOrPartition == "ErrUnknownTopicOrPartition"
ErrNotLeaderForPartition == "ErrNotLeaderForPartition"
ErrReplicaNotAvailable == "ErrReplicaNotAvailable"
ErrTopicAlreadyExists == "ErrTopicAlreadyExists"
ErrInvalidReplicationFactor == "ErrInvalidReplicationFactor"
ErrNotController == "ErrNotController"

\* -------------------------------------------------------------------- state
VARIABLES
    id,            \* b.config.ID
    devMode,       \* b.config.DevMode
    raftLeader,    \* b.raft.State() == raft.Leader
    serfMembers,   \* b.serf.Members(): ids of the live gossip members
    brokerLookup,  \* b.brokerLookup: ids of the brokers it holds
    fsmTopics,     \* FSM topic table: topic -> Nil or [Partitions: id -> AR]
    fsmPartitions, \* FSM partition table: <<topic, id>> -> Nil or Partition
    replicaLookup, \* b.replicaLookup: <<topic, partition>> -> Nil or Replica
    logs,          \* commit log storage under DataDir/data/<partition id>
    pc,            \* where the dispatcher goroutine of Run is
    conn,          \* Run's local conn
    header,        \* Run's local header
    resp,          \* Run's local resp
    responsec,     \* the last response Run sent on responsec
    last,          \* history of Run's last iteration: the request, the broker
                   \* before and after it, and how the handler ended
    built,         \* the last call of buildPartitions: its inputs and its result
    lifecycle,     \* b.shutdown, closes of b.shutdownCh, and the state of b.serf,
                   \* b.raft, b.raftTransport and b.raftStore
    serverLookup,  \* the server lookup: addressToServer and idToServer
    added,         \* history: the servers added to the lookup and not removed since
    lookupCall     \* history: the last query of the lookup and what it returned

lookupVars == <<serverLookup, added, lookupCall>>

vars == <<id, devMode, raftLeader, serfMembers, brokerLookup, fsmTopics,
          fsmPartitions, replicaLookup, logs, pc, conn, header, resp, responsec,
          last, built, lifecycle, lookupVars>>

\* The part of the broker a request handler reads and writes, with what it
\* does on the way: proposed, the Raft commands it proposes; dispatched, the
\* LeaderAndISR requests it hands to brokers; applies, the count of its
\* proposals and raftErrs, of those that failed; built, its call of
\* buildPartitions; steps, in program order, the lock operations, blocking
\* calls, field writes, proposals and dispatches of the handler.
BrokerState ==
    [id |-> id, devMode |-> devMode, raftLeader |-> raftLeader,
     serfMembers |-> serfMembers, brokerLookup |-> brokerLookup,
     fsmTopics |-> fsmTopics, fsmPartitions |-> fsmPartitions,
     replicaLookup |-> replicaLookup, logs |-> logs,
     proposed |-> <<>>, dispatched |-> <<>>, built |-> Nil, applies |-> 0,
     raftErrs |-> 0, steps |-> <<>>]

\* One step of a handler, and the state after the handler took steps evs.
Step(op, key, arg) == [op |-> op, key |-> key, arg |-> arg]
Did(s, evs) == [s EXCEPT !.steps = @ \o evs]

\* What a handler yields: the broker state it leaves, its response body, and
\* out: "ok" (returned), "panic" or "spin" (never returns).
Result(s, body, out) == [s |-> s, body |-> body, out |-> out]

\* ---------------------------------------------------------------------- FSM
\* FSM apply of RegisterTopic: create the topic if absent, else no-op.
ApplyRegisterTopic(s, tt) ==
    IF s.fsmTopics[tt.Topic] # Nil THEN s
    ELSE [s EXCEPT !.fsmTopics[tt.Topic] = [Partitions |-> tt.Partitions]]

\* FSM apply of RegisterPartition: upsert the partition row.
ApplyRegisterPartition(s, p) ==
    [s EXCEPT !.fsmPartitions[<<p.Topic, p.ID>>] = p]

\* FSM apply of DeregisterTopic: remove the topic row.
ApplyDeregisterTopic(s, topic) ==
    [s EXCEPT !.fsmTopics[topic] = Nil]

FsmApply(s, cmd) ==
    CASE cmd.type = "RegisterTopic" -> ApplyRegisterTopic(s, cmd.Topic)
      [] cmd.type = "RegisterPartition" -> ApplyRegisterPartition(s, cmd.Partition)
      [] cmd.type = "DeregisterTopic" -> ApplyDeregisterTopic(s, cmd.Topic)

\* b.raftApply(type, request): propose the command and wait for its commit.
\* env.raftFailAt = k > 0 makes the k-th and every later proposal of this
\* handler fail (leadership lost, timeout); a failed proposal is not applied.
raftApply(s, cmd, env) ==
    LET n == s.applies + 1
        failed == env.raftFailAt # 0 /\ n >= env.raftFailAt
        s1 == [s EXCEPT !.applies = n, !.proposed = Append(@, cmd.type),
                        !.steps = Append(@, Step("raftApply", cmd.type,
                                                 [cmd |-> cmd, err |-> failed]))]
    IN [s |-> IF failed THEN [s1 EXCEPT !.raftErrs = @ + 1] ELSE FsmApply(s1, cmd),
        err |-> failed]

\* state.GetTopic(topic)
GetTopic(s, topic) == s.fsmTopics[topic]

isLeader(s) == s.raftLeader

\* Mutant of isController: every broker takes itself for the controller.
isControllerAlways(s) == TRUE

\* isController returns true if this is the cluster controller.
isController(s) == isLeader(s)

LANMembers(s) == s.serfMembers

\* --------------------------------------------------------------- commit log
\* commitlog.New(Options{Path: .../data/<partition id>}): opens the log stored
\* at the path, creating an empty one if there is none.
NewCommitLog(s, path) ==
    IF s.logs[path] # Nil THEN s
    ELSE [s EXCEPT !.logs[path] = [oldest |-> 0, recs |-> <<>>]]

\* The storage behind a Log handle.
LogOf(s, handle) == s.logs[handle.path]

OldestOffset(l) == l.oldest
NewestOffset(l) == l.oldest + Len(l.recs)

\* Log.Append(recordSet): the base offset is the log end offset before it.
LogAppend(s, handle, recordSet) ==
    [s EXCEPT !.logs[handle.path].recs = @ \o recordSet]

\* Log.Truncate(target): discards what lies above target.
LogTruncate(s, handle, target) ==
    LET l == LogOf(s, handle)
        keep == Max(0, Min(Len(l.recs), target - l.oldest))
    IN [s EXCEPT !.logs[handle.path].recs = SubSeq(l.recs, 1, keep)]

\* Log.NewReader(offset, maxBytes): an error below the oldest offset, else the
\* bytes (one per record) from offset on, at most maxBytes of them.
NewReader(l, offset, maxBytes) ==
    IF offset < OldestOffset(l) THEN [err |-> ErrOffsetOutOfRange, bytes |-> <<>>]
    ELSE LET from == offset - l.oldest + 1
             upto == Min(Len(l.recs), from + maxBytes - 1)
         IN [err |-> ErrNone,
             bytes |-> IF from > Len(l.recs) THEN <<>> ELSE SubSeq(l.recs, from, upto)]

\* --------------------------------------------------- partition role machine
\* The Replica handleLeaderAndISR creates for a PartitionState p it has no
\* replica for.
NewReplica(s, p) ==
    [BrokerID |-> s.id,
     Partition |-> [ID |-> p.Partition, Partition |-> p.Partition, Topic |-> p.Topic,
                    ISR |-> p.ISR, AR |-> p.Replicas, ControllerEpoch |-> p.ZKVersion,
                    LeaderEpoch |-> p.LeaderEpoch, Leader |-> p.Leader],
     IsLocal |-> TRUE, Log |-> Nil, Hw |-> 0, Leo |-> 0, Replicator |-> Nil]

\* startReplica: the topic must be in the FSM and list this broker among the
\* partition's replicas; the commit log is opened unless it is open already.
\* The broker lock is taken on entry and released on return.
startReplica(s, key, env) ==
    LET replica == s.replicaLookup[key]
        topic == GetTopic(s, replica.Partition.Topic)
        pid == replica.Partition.ID
        isReplica == /\ pid \in DOMAIN topic.Partitions
                     /\ contains(topic.Partitions[pid], s.id)
        lock == Step("Lock", key, "startReplica")
        unlock == Step("Unlock", key, "startReplica")
        open == Step("commitlog.New", key, pid)
    IN IF topic = Nil
           THEN [s |-> Did(s, <<lock, unlock>>), err |-> ErrUnknownTopicOrPartition]
       ELSE IF ~isReplica
           THEN [s |-> Did(s, <<lock, unlock>>), err |-> ErrReplicaNotAvailable]
       ELSE IF replica.Log # Nil THEN [s |-> Did(s, <<lock, unlock>>), err |-> ErrNone]
       ELSE IF ~env.logOk THEN [s |-> Did(s, <<lock, open, unlock>>), err |-> ErrUnknown]
       ELSE [s |-> [Did(NewCommitLog(s, pid),
                        <<lock, open, Step("Write", key, "Log"), unlock>>)
                        EXCEPT !.replicaLookup[key].Log = [path |-> pid]],
             err |-> ErrNone]

\* becomeLeader: under the broker lock, close the replicator, take Leader, AR
\* and ISR from cmd.
becomeLeader(s, key, cmd) ==
    [s |-> [Did(s, <<Step("Lock", key, "becomeLeader")>>
                   \o (IF s.replicaLookup[key].Replicator # Nil
                           THEN <<Step("Replicator.Close", key,
                                       s.replicaLookup[key].Replicator.leader),
                                  Step("Write", key, "Replicator")>>
                       ELSE <<>>)
                   \o <<Step("Write", key, "Leader"), Step("Write", key, "AR"),
                        Step("Write", key, "ISR"), Step("Write", key, "LeaderEpoch"),
                        Step("Unlock", key, "becomeLeader")>>)
               EXCEPT !.replicaLookup[key].Replicator = Nil,
                     !.replicaLookup[key].Partition.Leader = cmd.Leader,
                     !.replicaLookup[key].Partition.AR = cmd.Replicas,
                     !.replicaLookup[key].Partition.ISR = cmd.ISR,
                     !.replicaLookup[key].Partition.LeaderEpoch = cmd.ZKVersion],
     err |-> ErrNone]

\* Mutant of becomeFollower: the previous replicator is left running.
becomeFollowerKeepsReplicator(s, key, cmd) ==
    LET replica == s.replicaLookup[key]
        hw == NewestOffset(LogOf(s, replica.Log))
        s1 == LogTruncate(s, replica.Log, hw)
        steps == <<Step("Lock", key, "becomeFollower"),
                   Step("Log.Truncate", key, hw),
                   Step("NewReplicator", key, cmd.Leader),
                   Step("Write", key, "Replicator")>>
                 \o (IF ~s.devMode THEN <<Step("Replicate", key, cmd.Leader)>> ELSE <<>>)
                 \o <<Step("Unlock", key, "becomeFollower")>>
    IN [s |-> [Did(s1, steps) EXCEPT !.replicaLookup[key].Replicator =
                                         [leader |-> cmd.Leader, running |-> ~s.devMode]],
        err |-> ErrNone]

\* becomeFollower: under the broker lock, close the replicator, truncate the
\* log to its newest offset, create a replicator that pulls from cmd.Leader
\* and start it unless the broker is in dev mode.
becomeFollower(s, key, cmd) ==
    LET replica == s.replicaLookup[key]
        hw == NewestOffset(LogOf(s, replica.Log))
        s1 == LogTruncate(s, replica.Log, hw)
        steps == <<Step("Lock", key, "becomeFollower")>>
                 \o (IF replica.Replicator # Nil
                         THEN <<Step("Replicator.Close", key, replica.Replicator.leader)>>
                     ELSE <<>>)
                 \o <<Step("Log.Truncate", key, hw),
                      Step("NewReplicator", key, cmd.Leader),
                      Step("Write", key, "Replicator")>>
                 \o (IF ~s.devMode THEN <<Step("Replicate", key, cmd.Leader)>> ELSE <<>>)
                 \o <<Step("Unlock", key, "becomeFollower")>>
    IN [s |-> [Did(s1, steps) EXCEPT !.replicaLookup[key].Replicator =
                                         [leader |-> cmd.Leader, running |-> ~s.devMode]],
        err |-> ErrNone]

LeaderAndISRPartition(p, err) ==
    [Topic |-> p.Topic, Partition |-> p.Partition, ErrorCode |-> err]

\* The body of handleLeaderAndISR's loop for one PartitionState p.
HandlePartitionState(s, p, env) ==
    LET key == <<p.Topic, p.Partition>>
        isNew == s.replicaLookup[key] = Nil
        s1 == IF isNew THEN [s EXCEPT !.replicaLookup[key] = NewReplica(s, p)] ELSE s
        Entry(r) == [s |-> r.s, entry |-> LeaderAndISRPartition(p, r.err)]
        Started(st) ==
            LET replica == st.s.replicaLookup[key]
            IN IF st.err # ErrNone THEN Entry(st)
               ELSE IF p.Leader = s.id /\ (replica.Partition.Leader # s.id \/ isNew)
                   THEN Entry(becomeLeader(st.s, key, p))
               ELSE IF contains(p.Replicas, s.id)
                       /\ (~contains(replica.Partition.AR, p.Leader) \/ isNew)
                   THEN Entry(becomeFollower(st.s, key, p))
               ELSE Entry([s |-> st.s, err |-> ErrNone])
    IN Started(startReplica(s1, key, env))

RECURSIVE LeaderAndISRFrom(_, _, _, _, _)
LeaderAndISRFrom(s, states, i, env, acc) ==
    IF i > Len(states) THEN [s |-> s, entries |-> acc]
    ELSE LET Rest(h) == LeaderAndISRFrom(h.s, states, i + 1, env, Append(acc, h.entry))
         IN Rest(HandlePartitionState(s, states[i], env))

\* handleLeaderAndISR.  The response's own ErrorCode is never assigned.
handleLeaderAndISR(s, req, env) ==
    LET Respond(h) == Result(h.s,
                             [kind |-> "LeaderAndISRResponse", ErrorCode |-> ErrNone,
                              Partitions |-> h.entries],
                             "ok")
    IN Respond(LeaderAndISRFrom(s, req.PartitionStates, 1, env, <<>>))

\* --------------------------------------------------------- controller logic
\* createPartition: propose RegisterPartition.
createPartition(s, partition, env) ==
    raftApply(s, [type |-> "RegisterPartition", Partition |-> partition], env)

\* Mutant of CreatePartitionsFrom: only the first partition is registered.
CreatePartitionsFromFirstOnly(s, ps, i, env) ==
    IF i > Len(ps) \/ i > 1 THEN [s |-> s, err |-> FALSE]
    ELSE createPartition(s, ps[i], env)

RECURSIVE CreatePartitionsFrom(_, _, _, _)
\* The loop of createTopic over ps that calls createPartition; it stops at the
\* first proposal that fails.
CreatePartitionsFrom(s, ps, i, env) ==
    IF i > Len(ps) THEN [s |-> s, err |-> FALSE]
    ELSE LET Rest(a) == IF a.err THEN a ELSE CreatePartitionsFrom(a.s, ps, i + 1, env)
         IN Rest(createPartition(s, ps[i], env))

\* The PartitionState createTopic builds for a partition.
PartitionStateOf(partition) ==
    [Topic |-> partition.Topic, Partition |-> partition.ID, Leader |-> partition.Leader,
     ISR |-> partition.ISR, Replicas |-> partition.AR, LeaderEpoch |-> 0, ZKVersion |-> 0]

RECURSIVE DispatchFrom(_, _, _, _, _)
\* The loop of createTopic over b.brokerLookup.Brokers(): the request is
\* handled directly on this broker and sent over a client to the others; a
\* local error code other than ErrNone, or a failed send, panics.
DispatchFrom(s, mems, i, req, env) ==
    IF i > Len(mems) THEN [s |-> s, out |-> "ok"]
    ELSE LET s1 == [s EXCEPT !.dispatched =
                        Append(@, [to |-> mems[i], PartitionStates |-> req.PartitionStates]),
                             !.steps =
                        Append(@, Step(IF mems[i] = s.id THEN "handleLeaderAndISR"
                                       ELSE "Client.LeaderAndISR",
                                       mems[i], req.PartitionStates))]
             Rest(h) == IF h.body.ErrorCode # ErrNone THEN [s |-> h.s, out |-> "panic"]
                        ELSE DispatchFrom(h.s, mems, i + 1, req, env)
         IN IF mems[i] = s.id THEN Rest(handleLeaderAndISR(s1, req, env))
            ELSE IF ~env.rpcOk THEN [s |-> s1, out |-> "panic"]
            ELSE DispatchFrom(s1, mems, i + 1, req, env)

\* The record kept of a call of buildPartitions.
BuiltCall(topic, partitions, replicationFactor, mems, b) ==
    [topic |-> topic, partitions |-> partitions, replicationFactor |-> replicationFactor,
     mems |-> mems, out |-> b.out, ps |-> b.ps]

\* createTopic once the topic is known to be new: build the partitions,
\* propose RegisterTopic and a RegisterPartition for each of them, then hand
\* one LeaderAndISR request to every broker.
CreateNewTopic(s, topic, partitions, replicationFactor, env) ==
    LET mems == Brokers(s.brokerLookup)
        Built(b) ==
            LET s0 == [s EXCEPT !.built = BuiltCall(topic, partitions, replicationFactor,
                                                    mems, b)]
                ps == b.ps
                tt == [Topic |-> topic,
                       Partitions |-> [pid \in {ps[k].ID : k \in 1..Len(ps)} |->
                                          (CHOOSE q \in Range(ps) : q.ID = pid).AR]]
                req == [ControllerID |-> s.id,
                        PartitionStates |-> [k \in 1..Len(ps) |-> PartitionStateOf(ps[k])]]
                Dispatched(d) == [s |-> d.s, err |-> ErrNone, out |-> d.out]
                Partitioned(c) ==
                    IF c.err THEN [s |-> c.s, err |-> ErrUnknown, out |-> "ok"]
                    ELSE Dispatched(DispatchFrom(c.s, Brokers(c.s.brokerLookup), 1, req, env))
                Registered(a) ==
                    IF a.err THEN [s |-> a.s, err |-> ErrUnknown, out |-> "ok"]
                    ELSE Partitioned(CreatePartitionsFrom(a.s, ps, 1, env))
            IN IF b.out # "ok" THEN [s |-> s0, err |-> ErrNone, out |-> b.out]
               ELSE Registered(raftApply(s0, [type |-> "RegisterTopic", Topic |-> tt], env))
    IN Built(buildPartitions(topic, partitions, replicationFactor, mems, env.rnd))

\* Mutant of createTopic: a topic the FSM holds is created again.
createTopicNoExistsCheck(s, topic, partitions, replicationFactor, env) ==
    CreateNewTopic(s, topic, partitions, replicationFactor, env)

\* createTopic(topic, partitions, replicationFactor)
createTopic(s, topic, partitions, replicationFactor, env) ==
    IF GetTopic(s, topic) # Nil THEN [s |-> s, err |-> ErrTopicAlreadyExists, out |-> "ok"]
    ELSE CreateNewTopic(s, topic, partitions, replicationFactor, env)

TopicErrorCode(topic, err) == [Topic |-> topic, ErrorCode |-> err]

\* Mutant of HandleCreateTopicEntry: the replication factor is not checked.
HandleCreateTopicEntryNoRFCheck(s, req, ctl, env) ==
    IF ~ctl
        THEN [s |-> s, entry |-> TopicErrorCode(req.Topic, ErrNotController), out |-> "ok"]
    ELSE LET Entry(c) == [s |-> c.s, entry |-> TopicErrorCode(req.Topic, c.err),
                          out |-> c.out]
         IN Entry(createTopic(s, req.Topic, req.NumPartitions, req.ReplicationFactor, env))

\* The body of handleCreateTopic's loop for one entry of the request.
HandleCreateTopicEntry(s, req, ctl, env) ==
    IF ~ctl
        THEN [s |-> s, entry |-> TopicErrorCode(req.Topic, ErrNotController), out |-> "ok"]
    ELSE IF req.ReplicationFactor > Cardinality(LANMembers(s))
        THEN [s |-> s, entry |-> TopicErrorCode(req.Topic, ErrInvalidReplicationFactor),
              out |-> "ok"]
    ELSE LET Entry(c) == [s |-> c.s, entry |-> TopicErrorCode(req.Topic, c.err),
                          out |-> c.out]
         IN Entry(createTopic(s, req.Topic, req.NumPartitions, req.ReplicationFactor, env))

RECURSIVE CreateTopicFrom(_, _, _, _, _, _)
CreateTopicFrom(s, reqs, i, ctl, env, acc) ==
    IF i > Len(reqs) THEN [s |-> s, entries |-> acc, out |-> "ok"]
    ELSE LET Rest(h) ==
                 IF h.out # "ok" THEN [s |-> h.s, entries |-> acc, out |-> h.out]
                 ELSE CreateTopicFrom(h.s, reqs, i + 1, ctl, env, Append(acc, h.entry))
         IN Rest(HandleCreateTopicEntry(s, reqs[i], ctl, env))

\* handleCreateTopic: isController is read once, before the loop.
handleCreateTopic(s, reqs, env) ==
    LET Respond(h) ==
            Result(h.s, [kind |-> "CreateTopicsResponse", TopicErrorCodes |-> h.entries],
                   h.out)
    IN Respond(CreateTopicFrom(s, reqs.Requests, 1, isController(s), env, <<>>))

\* The body of handleDeleteTopics's loop for one topic of the request.
HandleDeleteTopicEntry(s, topic, ctl, env) ==
    IF ~ctl THEN [s |-> s, entry |-> TopicErrorCode(topic, ErrNotController)]
    ELSE LET Entry(a) ==
                 [s |-> a.s,
                  entry |-> TopicErrorCode(topic, IF a.err THEN ErrUnknown ELSE ErrNone)]
         IN Entry(raftApply(s, [type |-> "DeregisterTopic", Topic |-> topic], env))

RECURSIVE DeleteTopicsFrom(_, _, _, _, _, _)
DeleteTopicsFrom(s, topics, i, ctl, env, acc) ==
    IF i > Len(topics) THEN [s |-> s, entries |-> acc]
    ELSE LET Rest(h) == DeleteTopicsFrom(h.s, topics, i + 1, ctl, env, Append(acc, h.entry))
         IN Rest(HandleDeleteTopicEntry(s, topics[i], ctl, env))

\* handleDeleteTopics
handleDeleteTopics(s, reqs, env) ==
    LET Respond(h) ==
            Result(h.s, [kind |-> "DeleteTopicsResponse", TopicErrorCodes |-> h.entries], "ok")
    IN Respond(DeleteTopicsFrom(s, reqs.Topics, 1, isController(s), env, <<>>))

\* ------------------------------------------------------------------ produce
\* The body of handleProduce's inner loop for one partition p of topic td.
HandleProducePartition(s, topic, p, env) ==
    LET replica == s.replicaLookup[<<topic, p.Partition>>]
        presp(part, err, base) == [Partition |-> part, ErrorCode |-> err, BaseOffset |-> base]
    IN IF GetTopic(s, topic) = Nil
           THEN [s |-> s, entry |-> presp(0, ErrUnknownTopicOrPartition, 0), out |-> "ok"]
       ELSE IF replica = Nil
           THEN [s |-> s, entry |-> presp(p.Partition, ErrReplicaNotAvailable, 0), out |-> "ok"]
       ELSE IF replica.Log = Nil
           THEN [s |-> s, entry |-> Nil, out |-> "panic"]
       ELSE IF ~env.appendOk
           THEN [s |-> s, entry |-> presp(0, ErrUnknown, 0), out |-> "ok"]
       ELSE [s |-> LogAppend(s, replica.Log, p.RecordSet),
             entry |-> presp(p.Partition, ErrNone, NewestOffset(LogOf(s, replica.Log))),
             out |-> "ok"]

RECURSIVE ProducePartitionsFrom(_, _, _, _, _, _)
ProducePartitionsFrom(s, topic, data, j, env, acc) ==
    IF j > Len(data) THEN [s |-> s, entries |-> acc, out |-> "ok"]
    ELSE LET Rest(h) ==
                 IF h.out # "ok" THEN [s |-> h.s, entries |-> acc, out |-> h.out]
                 ELSE ProducePartitionsFrom(h.s, topic, data, j + 1, env,
                                            Append(acc, h.entry))
         IN Rest(HandleProducePartition(s, topic, data[j], env))

RECURSIVE ProduceTopicsFrom(_, _, _, _, _)
ProduceTopicsFrom(s, topicData, i, env, acc) ==
    IF i > Len(topicData) THEN [s |-> s, entries |-> acc, out |-> "ok"]
    ELSE LET td == topicData[i]
             Rest(h) ==
                 IF h.out # "ok" THEN [s |-> h.s, entries |-> acc, out |-> h.out]
                 ELSE ProduceTopicsFrom(h.s, topicData, i + 1, env,
                          Append(acc, [Topic |-> td.Topic, PartitionResponses |-> h.entries]))
         IN Rest(ProducePartitionsFrom(s, td.Topic, td.Data, 1, env, <<>>))

\* handleProduce
handleProduce(s, req, env) ==
    LET Respond(h) ==
            Result(h.s, [kind |-> "ProduceResponses", Responses |-> h.entries], h.out)
    IN Respond(ProduceTopicsFrom(s, req.TopicData, 1, env, <<>>))

\* -------------------------------------------------------------------- fetch
\* The byte loop of handleFetch, `for n < r.MinBytes { ... }`, over a reader
\* that holds avail.  env.expired: the wait time had passed when the loop was
\* first entered; env.readOk: io.Copy returns no error.  A reader that is
\* drained yields no more bytes, and io.Copy returns nil at the end of its
\* input, so a loop that is short of MinBytes ends only by the wait time.
FetchLoop(r, avail, env) ==
    IF ~(0 < r.MinBytes) THEN [bytes |-> <<>>, out |-> "ok"]
    ELSE IF r.MaxWaitTime # 0 /\ env.expired THEN [bytes |-> <<>>, out |-> "ok"]
    ELSE IF ~env.readOk THEN [bytes |-> <<>>, out |-> "ok"]
    ELSE IF ~(Len(avail) < r.MinBytes) THEN [bytes |-> avail, out |-> "ok"]
    ELSE IF r.MaxWaitTime # 0 THEN [bytes |-> avail, out |-> "ok"]
    ELSE [bytes |-> avail, out |-> "spin"]

\* The body of handleFetch's inner loop for one partition p of a topic.
HandleFetchPartition(s, r, topic, p, env) ==
    LET replica == s.replicaLookup[<<topic, p.Partition>>]
        fresp(err, hw, bytes) == [Partition |-> p.Partition, ErrorCode |-> err,
                                  HighWatermark |-> hw, RecordSet |-> bytes]
        l == LogOf(s, replica.Log)
        rdr == NewReader(l, p.FetchOffset, p.MaxBytes)
        f == FetchLoop(r, rdr.bytes, env)
    IN IF replica = Nil
           THEN [entry |-> fresp(ErrReplicaNotAvailable, 0, <<>>), out |-> "ok"]
       ELSE IF replica.Partition.Leader # s.id
           THEN [entry |-> fresp(ErrNotLeaderForPartition, 0, <<>>), out |-> "ok"]
       ELSE IF replica.Log = Nil
           THEN [entry |-> Nil, out |-> "panic"]
       ELSE IF rdr.err # ErrNone
           THEN [entry |-> fresp(ErrUnknown, 0, <<>>), out |-> "ok"]
       ELSE [entry |-> fresp(ErrNone, NewestOffset(l), f.bytes), out |-> f.out]

RECURSIVE FetchPartitionsFrom(_, _, _, _, _, _, _)
FetchPartitionsFrom(s, r, topic, parts, j, env, acc) ==
    IF j > Len(parts) THEN [entries |-> acc, out |-> "ok"]
    ELSE LET Rest(h) ==
                 IF h.out # "ok" THEN [entries |-> acc, out |-> h.out]
                 ELSE FetchPartitionsFrom(s, r, topic, parts, j + 1, env,
                                          Append(acc, h.entry))
         IN Rest(HandleFetchPartition(s, r, topic, parts[j], env))

RECURSIVE FetchTopicsFrom(_, _, _, _, _)
FetchTopicsFrom(s, r, i, env, acc) ==
    IF i > Len(r.Topics) THEN [entries |-> acc, out |-> "ok"]
    ELSE LET t == r.Topics[i]
             Rest(h) ==
                 IF h.out # "ok" THEN [entries |-> acc, out |-> h.out]
                 ELSE FetchTopicsFrom(s, r, i + 1, env,
                          Append(acc, [Topic |-> t.Topic, PartitionResponses |-> h.entries]))
         IN Rest(FetchPartitionsFrom(s, r, t.Topic, t.Partitions, 1, env, <<>>))

\* handleFetch
handleFetch(s, r, env) ==
    LET Respond(h) == Result(s, [kind |-> "FetchResponses", Responses |-> h.entries], h.out)
    IN Respond(FetchTopicsFrom(s, r, 1, env, <<>>))

\* ------------------------------------------------------------------ offsets
\* Mutant of OffsetOf: the newest offset whatever the timestamp.
OffsetOfNewest(l, timestamp) == NewestOffset(l)

\* The offset handleOffsets reports for a timestamp: the oldest offset of the
\* log for -2, else the newest.
OffsetOf(l, timestamp) ==
    IF timestamp = -2 THEN OldestOffset(l) ELSE NewestOffset(l)

RECURSIVE OffsetsPartitionsFrom(_, _, _, _, _)
\* The inner loop of handleOffsets: a partition without a replica is skipped.
OffsetsPartitionsFrom(s, topic, parts, j, acc) ==
    IF j > Len(parts) THEN [entries |-> acc, out |-> "ok"]
    ELSE LET p == parts[j]
             replica == s.replicaLookup[<<topic, p.Partition>>]
             l == LogOf(s, replica.Log)
             offset == OffsetOf(l, p.Timestamp)
         IN IF replica = Nil THEN OffsetsPartitionsFrom(s, topic, parts, j + 1, acc)
            ELSE IF replica.Log = Nil THEN [entries |-> acc, out |-> "panic"]
            ELSE OffsetsPartitionsFrom(s, topic, parts, j + 1,
                     Append(acc, [Partition |-> p.Partition, ErrorCode |-> ErrNone,
                                  Offsets |-> <<offset>>]))

RECURSIVE OffsetsTopicsFrom(_, _, _, _)
OffsetsTopicsFrom(s, topics, i, acc) ==
    IF i > Len(topics) THEN [entries |-> acc, out |-> "ok"]
    ELSE LET t == topics[i]
             Rest(h) ==
                 IF h.out # "ok" THEN [entries |-> acc, out |-> h.out]
                 ELSE OffsetsTopicsFrom(s, topics, i + 1,
                          Append(acc, [Topic |-> t.Topic, PartitionResponses |-> h.entries]))
         IN Rest(OffsetsPartitionsFrom(s, t.Topic, t.Partitions, 1, <<>>))

\* handleOffsets
handleOffsets(s, req) ==
    LET Respond(h) ==
            Result(s, [kind |-> "OffsetsResponse", Responses |-> h.entries], h.out)
    IN Respond(OffsetsTopicsFrom(s, req.Topics, 1, <<>>))

\* ----------------------------------------------------------------- metadata
\* topicMetadataFn for a topic of the FSM: one entry per partition id of the
\* topic's partition map.
TopicMetadataOf(s, topicName) ==
    LET topic == GetTopic(s, topicName)
        ids == SortedSeq(DOMAIN topic.Partitions)
        pmeta(pid) ==
            LET p == s.fsmPartitions[<<topicName, pid>>]
            IN IF p = Nil
               THEN [ParititionID |-> pid, PartitionErrorCode |-> ErrUnknownTopicOrPartition,
                     Leader |-> 0, Replicas |-> <<>>, ISR |-> <<>>]
               ELSE [ParititionID |-> p.ID, PartitionErrorCode |-> ErrNone,
                     Leader |-> p.Leader, Replicas |-> p.AR, ISR |-> p.ISR]
    IN IF topic = Nil
       THEN [TopicErrorCode |-> ErrUnknownTopicOrPartition, Topic |-> topicName,
             PartitionMetadata |-> <<>>]
       ELSE [TopicErrorCode |-> ErrNone, Topic |-> topicName,
             PartitionMetadata |-> [k \in 1..Len(ids) |-> pmeta(ids[k])]]

\* The topics of the FSM in name order (state.GetTopics()).
GetTopics(s) ==
    LET present == {t \in Topics : GetTopic(s, t) # Nil}
    IN IF present = Topics THEN <<"t", "u">>
       ELSE IF present = {} THEN <<>>
       ELSE <<CHOOSE t \in present : TRUE>>

\* handleMetadata: one broker entry per gossip member, every one of them with
\* NodeID b.config.ID, and the metadata of the topics asked for (all topics
\* for an empty list).
handleMetadata(s, req) ==
    LET mems == SortedSeq(LANMembers(s))
        brokers == [k \in 1..Len(mems) |-> [NodeID |-> s.id, Addr |-> mems[k]]]
        names == IF Len(req.Topics) = 0 THEN GetTopics(s) ELSE req.Topics
    IN Result(s,
              [kind |-> "MetadataResponse", Brokers |-> brokers,
               TopicMetadata |-> [k \in 1..Len(names) |-> TopicMetadataOf(s, names[k])]],
              "ok")

\* handleAPIVersions: the static table of supported API keys.
handleAPIVersions(s, req) ==
    Result(s, [kind |-> "APIVersionsResponse"], "ok")

\* --------------------------------------------------------------- dispatcher
\* The type switch of Run: the handler of the request's kind.  A request of
\* a kind the switch has no case for leaves resp as it was.
Handle(s, request, env) ==
    LET req == request.Request
    IN CASE req.kind = "APIVersionsRequest" -> handleAPIVersions(s, req)
         [] req.kind = "ProduceRequest" -> handleProduce(s, req, env)
         [] req.kind = "FetchRequest" -> handleFetch(s, req, env)
         [] req.kind = "OffsetsRequest" -> handleOffsets(s, req)
         [] req.kind = "MetadataRequest" -> handleMetadata(s, req)
         [] req.kind = "CreateTopicRequests" -> handleCreateTopic(s, req, env)
         [] req.kind = "DeleteTopicsRequest" -> handleDeleteTopics(s, req, env)
         [] req.kind = "LeaderAndISRRequest" -> handleLeaderAndISR(s, req, env)
         [] OTHER -> Result(s, resp, "ok")

\* No commit log grows beyond the model's bound.
LogsWithinBound(s) ==
    \A pid \in PartIds : s.logs[pid] # Nil => Len(s.logs[pid].recs) <= MaxLogLen

\* One iteration of Run's loop: receive request from requestc, handle it and
\* send the response on responsec.  A handler that panics or never returns
\* ends the dispatcher: no response is sent.
Run(request, env) ==
    LET Send(h) ==
            /\ LogsWithinBound(h.s)
            /\ resp' = IF h.out = "ok" THEN h.body ELSE resp
            /\ pc' = IF h.out = "ok" THEN "recv" ELSE h.out
            /\ responsec' =
                  IF h.out = "ok"
                  THEN [Conn |-> request.Conn, Header |-> request.Header,
                        Response |-> [CorrelationID |-> request.Header.CorrelationID,
                                      Body |-> h.body]]
                  ELSE responsec
            /\ last' = [request |-> request, pre |-> BrokerState, post |-> h.s,
                        out |-> h.out]
            /\ fsmTopics' = h.s.fsmTopics
            /\ fsmPartitions' = h.s.fsmPartitions
            /\ replicaLookup' = h.s.replicaLookup
            /\ logs' = h.s.logs
            /\ built' = h.s.built
    IN /\ pc = "recv"
       /\ conn' = request.Conn
       /\ header' = request.Header
       /\ Send(Handle(BrokerState, request, env))
       /\ UNCHANGED <<id, devMode, raftLeader, serfMembers, brokerLookup, lifecycle,
                    lookupVars>>

\* -------------------------------------------------------------- environment
\* The Raft library reports a leadership change of this broker.
RaftStateChange ==
    /\ raftLeader' = ~raftLeader
    /\ UNCHANGED <<id, devMode, serfMembers, brokerLookup, fsmTopics, fsmPartitions,
                   replicaLookup, logs, pc, conn, header, resp, responsec, last, built,
                   lifecycle, lookupVars>>

\* The gossip layer sees another broker join or leave.
SerfMemberEvent ==
    \E b \in BrokerIds \ {id} :
        /\ serfMembers' = IF b \in serfMembers THEN serfMembers \ {b}
                          ELSE serfMembers \cup {b}
        /\ UNCHANGED <<id, devMode, raftLeader, brokerLookup, fsmTopics, fsmPartitions,
                       replicaLookup, logs, pc, conn, header, resp, responsec, last, built,
                   lifecycle, lookupVars>>

\* lanEventHandler handles a member event: the broker lookup follows the
\* gossip member list, one broker at a time.
LanEvent ==
    \E b \in BrokerIds :
        /\ (b \in serfMembers) # (b \in brokerLookup)
        /\ brokerLookup' = IF b \in serfMembers THEN brokerLookup \cup {b}
                           ELSE brokerLookup \ {b}
        /\ UNCHANGED <<id, devMode, raftLeader, serfMembers, fsmTopics, fsmPartitions,
                       replicaLookup, logs, pc, conn, header, resp, responsec, last, built,
                   lifecycle, lookupVars>>

\* A member event together with its handling by lanEventHandler: the broker's
\* own join first, then joins and leaves of the other brokers.  The cluster
\* forms before the first request is handled.
MemberEvent ==
    \E b \in BrokerIds :
        /\ header = Nil
        /\ (b # id) = (id \in brokerLookup)
        /\ serfMembers' = IF b \in serfMembers /\ b # id THEN serfMembers \ {b}
                          ELSE serfMembers \cup {b}
        /\ brokerLookup' = IF b \in brokerLookup THEN brokerLookup \ {b}
                           ELSE brokerLookup \cup {b}
        /\ UNCHANGED <<id, devMode, raftLeader, fsmTopics, fsmPartitions,
                       replicaLookup, logs, pc, conn, header, resp, responsec, last, built,
                   lifecycle, lookupVars>>

\* ------------------------------------------------------------------- inputs
CorrelationIds == 1..MaxCorrelationId
Conns == 1..MaxConn

\* Sequences over S of length lo..hi.
SeqsOf(S, lo, hi) == UNION {[1..n -> S] : n \in lo..hi}

\* A request as the server hands it to Run.
Request(body, corr, cn) ==
    [Conn |-> cn, Header |-> [APIKey |-> body.kind, CorrelationID |-> corr],
     Request |-> body]

\* What the environment decides while a request is handled: the random start
\* indexes, and at most one fault.
Env(rnd, fault, expired) ==
    [rnd |-> rnd,
     raftFailAt |-> IF fault = "raft1" THEN 1 ELSE IF fault = "raft2" THEN 2 ELSE 0,
     rpcOk |-> fault # "rpc", logOk |-> fault # "log", appendOk |-> fault # "append",
     readOk |-> fault # "read", expired |-> expired]
Rnds == [PartIds -> BrokerIds]
NoRnd == [i \in PartIds |-> 0]
LastRnd == [i \in PartIds |-> MaxBrokerId]

CreateTopicEntries ==
    [Topic : Topics, NumPartitions : 0..MaxPartitions,
     ReplicationFactor : 0..MaxReplicationFactor]

\* ---------------------------------------------------------------- shutdown
\* The services of a broker NewBroker returned: the shutdown flag is unset,
\* the shutdown channel open, gossip and Raft running, transport and store
\* open.
NewLifecycle ==
    [shutdown |-> FALSE, shutdownCh |-> 0, serf |-> "alive", raft |-> "running",
     raftTransport |-> "open", raftStore |-> "open"]

\* Shutdown: nothing if the flag is set; else set it, shut the gossip layer
\* down, close the Raft transport, shut Raft down, close the store, and close
\* the shutdown channel on return.  shutdownCh counts the closes.
ShutdownOf(l) ==
    IF l.shutdown THEN l
    ELSE [shutdown |-> TRUE,
          shutdownCh |-> l.shutdownCh + 1,
          serf |-> IF l.serf # "nil" THEN "shutdown" ELSE l.serf,
          raftTransport |-> IF l.raft # "nil" THEN "closed" ELSE l.raftTransport,
          raft |-> IF l.raft # "nil" THEN "shutdown" ELSE l.raft,
          raftStore |-> IF l.raft # "nil" /\ l.raftStore # "nil" THEN "closed"
                        ELSE l.raftStore]

\* A call of Shutdown.  It touches neither the replica lookup nor any
\* replicator, and Run does not listen on the shutdown channel.
Shutdown ==
    /\ lifecycle' = ShutdownOf(lifecycle)
    /\ UNCHANGED <<id, devMode, raftLeader, serfMembers, brokerLookup, fsmTopics,
                   fsmPartitions, replicaLookup, logs, pc, conn, header, resp,
                   responsec, last, built, lookupVars>>

\* ------------------------------------------------------------ server lookup
\* raft.ServerID(id) of an int32: the string holding the code point id, or
\* the replacement character when id is not a valid code point.
ServerID(i) ==
    IF i < 0 \/ i > 1114111 \/ (i >= 55296 /\ i <= 57343) THEN <<65533>> ELSE <<i>>

\* raft.ServerAddress(addr) of a string: the same characters.
ServerAddress(addr) == addr

\* NewServerLookup: both maps empty.
NewServerLookup == [addressToServer |-> <<>>, idToServer |-> <<>>]

\* m with key k bound to v, and m without key k.
MapPut(m, k, v) == [x \in DOMAIN m \cup {k} |-> IF x = k THEN v ELSE m[x]]
MapDelete(m, k) == [x \in DOMAIN m \ {k} |-> m[x]]

\* AddServer(server): enter the server under its Raft address and its id.
AddServerTo(sl, server) ==
    [addressToServer |-> MapPut(sl.addressToServer, ServerAddress(server.RaftAddr), server),
     idToServer |-> MapPut(sl.idToServer, ServerID(server.ID), server)]

\* Mutant of RemoveServerFrom: the server stays in the id map.
RemoveServerKeepsID(sl, server) ==
    [sl EXCEPT !.addressToServer = MapDelete(@, ServerAddress(server.RaftAddr))]

\* RemoveServer(server): delete its entries from both maps.
RemoveServerFrom(sl, server) ==
    [addressToServer |-> MapDelete(sl.addressToServer, ServerAddress(server.RaftAddr)),
     idToServer |-> MapDelete(sl.idToServer, ServerID(server.ID))]

\* ServerAddr(id): the Raft address of the server under id, or an error and
\* the empty address.
ServerAddrOf(sl, sid) ==
    IF sid \in DOMAIN sl.idToServer
        THEN [addr |-> ServerAddress(sl.idToServer[sid].RaftAddr), err |-> FALSE]
    ELSE [addr |-> ServerAddress(""), err |-> TRUE]

\* Server(addr): the server under addr, or nil.
ServerOf(sl, addr) ==
    IF addr \in DOMAIN sl.addressToServer THEN sl.addressToServer[addr] ELSE Nil

\* ---------------------------------------------------------- initial state
\* The broker as NewBroker returns it: no topic, no replica, an empty broker
\* lookup, itself the one gossip member, Raft not yet leader.
Init ==
    /\ id \in BrokerIds
    /\ devMode \in BOOLEAN
    /\ raftLeader = FALSE
    /\ serfMembers = {id}
    /\ brokerLookup = {}
    /\ fsmTopics = [t \in Topics |-> Nil]
    /\ fsmPartitions = [k \in Topics \X PartIds |-> Nil]
    /\ replicaLookup = [k \in Topics \X PartIds |-> Nil]
    /\ logs = [pid \in PartIds |-> Nil]
    /\ pc = "recv"
    /\ conn = 0
    /\ header = Nil
    /\ resp = Nil
    /\ responsec = Nil
    /\ last = Nil
    /\ built = Nil
    /\ lifecycle = NewLifecycle
    /\ serverLookup = NewServerLookup
    /\ added = {}
    /\ lookupCall = Nil

\* ------------------------------------------ specification of the assignment
\* buildPartitions as createTopic calls it, for every topic, partition count
\* and random start, every replication factor the check of handleCreateTopic
\* lets through, and every broker lookup and gossip member list.
BuildPartitionsCall ==
    \E topic \in Topics, partitions \in 0..MaxPartitions,
       replicationFactor \in 0..MaxReplicationFactor, rnd \in Rnds :
        LET mems == Brokers(brokerLookup)
        IN /\ ~(replicationFactor > Cardinality(serfMembers))
           /\ built' = BuiltCall(topic, partitions, replicationFactor, mems,
                           buildPartitions(topic, partitions, replicationFactor, mems, rnd))
           /\ UNCHANGED <<id, devMode, raftLeader, serfMembers, brokerLookup, fsmTopics,
                          fsmPartitions, replicaLookup, logs, pc, conn, header, resp,
                          responsec, last, lifecycle, lookupVars>>

InitAssign == Init /\ devMode = FALSE

NextAssign ==
    \/ SerfMemberEvent
    \/ LanEvent
    \/ BuildPartitionsCall

SpecAssign == InitAssign /\ [][NextAssign]_vars

\* -------------------------------------------- specification of the data path
\* The topic rows the cluster's controller registers through Raft: topic t
\* with this broker among the replicas of both partitions, or of none.
DataTopicRows ==
    {[Topic |-> "t", Partitions |-> (0 :> <<1, 2>>) @@ (1 :> <<2, 1>>)],
     [Topic |-> "t", Partitions |-> (0 :> <<2>>)]}

\* Raft commits a RegisterTopic command proposed by the controller and the
\* FSM of this broker applies it.
FsmCommit ==
    \E tt \in DataTopicRows :
        /\ fsmTopics[tt.Topic] = Nil
        /\ fsmTopics' = ApplyRegisterTopic(BrokerState, tt).fsmTopics
        /\ UNCHANGED <<id, devMode, raftLeader, serfMembers, brokerLookup, fsmPartitions,
                       replicaLookup, logs, pc, conn, header, resp, responsec, last, built,
                   lifecycle, lookupVars>>

PartitionStateFor(topic, partition, leader, replicas) ==
    [Topic |-> topic, Partition |-> partition, Leader |-> leader, ISR |-> replicas,
     Replicas |-> replicas, LeaderEpoch |-> 0, ZKVersion |-> 0]

\* The PartitionStates of this specification: partition 0 led by this broker
\* or by another one, with or without this broker among the replicas;
\* partition 1 led by broker 2 or by this broker.
DataPartitionStates ==
    {PartitionStateFor("t", 0, 1, <<1, 2>>), PartitionStateFor("t", 0, 2, <<2, 1>>),
     PartitionStateFor("t", 0, 0, <<0, 1>>), PartitionStateFor("t", 0, 2, <<2>>),
     PartitionStateFor("t", 1, 2, <<2, 1>>), PartitionStateFor("t", 1, 1, <<1, 2>>)}

LeaderAndISR ==
    \E p \in DataPartitionStates, fault \in {"none", "log"} :
        /\ pc = "recv"
        /\ Run(Request([kind |-> "LeaderAndISRRequest", ControllerID |-> 2,
                        PartitionStates |-> <<p>>], 1, 1),
               Env(NoRnd, fault, FALSE))

\* Record sets of one and of two records.
DataRecordSets == {<<"a">>, <<"a", "b">>}

Produce ==
    \E topic \in Topics, partition \in PartIds, rs \in DataRecordSets,
       fault \in {"none", "append"} :
        /\ topic = "u" => (partition = 0 /\ Len(rs) = 1)
        /\ partition # 0 => Len(rs) = 1
        /\ Run(Request([kind |-> "ProduceRequest",
                        TopicData |-> <<[Topic |-> topic,
                                         Data |-> <<[Partition |-> partition,
                                                     RecordSet |-> rs]>>]>>], 1, 1),
               Env(NoRnd, fault, FALSE))

\* MinBytes, MaxWaitTime and what the environment does during the byte loop.
FetchSettings ==
    {[MinBytes |-> 0, MaxWaitTime |-> 0, fault |-> "none", expired |-> FALSE],
     [MinBytes |-> 1, MaxWaitTime |-> 0, fault |-> "none", expired |-> FALSE],
     [MinBytes |-> 1, MaxWaitTime |-> 1, fault |-> "none", expired |-> FALSE],
     [MinBytes |-> 1, MaxWaitTime |-> 1, fault |-> "none", expired |-> TRUE],
     [MinBytes |-> 1, MaxWaitTime |-> 1, fault |-> "read", expired |-> FALSE],
     [MinBytes |-> MaxLogLen, MaxWaitTime |-> 1, fault |-> "none", expired |-> FALSE]}

Fetch ==
    \E partition \in PartIds, offset \in -1..1, st \in FetchSettings :
        /\ pc = "recv"
        /\ Run(Request([kind |-> "FetchRequest", MinBytes |-> st.MinBytes,
                        MaxWaitTime |-> st.MaxWaitTime,
                        Topics |-> <<[Topic |-> "t",
                                      Partitions |-> <<[Partition |-> partition,
                                                        FetchOffset |-> offset,
                                                        MaxBytes |-> MaxLogLen]>>]>>],
                       1, 1),
               Env(NoRnd, st.fault, st.expired))

Offsets ==
    \E partition \in PartIds, ts \in -2..0 :
        /\ pc = "recv"
        /\ Run(Request([kind |-> "OffsetsRequest",
                        Topics |-> <<[Topic |-> "t",
                                      Partitions |-> <<[Partition |-> partition,
                                                        Timestamp |-> ts]>>]>>], 1, 1),
               Env(NoRnd, "none", FALSE))

InitData == Init /\ id = 1 /\ devMode = FALSE

NextData ==
    \/ FsmCommit
    \/ LeaderAndISR
    \/ Produce
    \/ Fetch
    \/ Offsets

SpecData == InitData /\ [][NextData]_vars

\* ------------------------------------------- specification of the controller
\* The entries of this specification's CreateTopics requests: topic t with
\* any partition count and replication factor, topic u with one partition
\* and replication factor 1.
CtlEntries ==
    {e \in CreateTopicEntries :
        e.Topic = "u" => e.NumPartitions = 1 /\ e.ReplicationFactor = 1}

CtlEnvs ==
    {Env(r, "none", FALSE) : r \in {NoRnd, LastRnd}}
    \cup {Env(NoRnd, f, FALSE) : f \in {"raft1", "raft2", "rpc", "log"}}

\* CreateTopics requests of one entry, or of two entries of one partition
\* the second of which names topic u.
CreateTopics ==
    \E reqs \in SeqsOf(CtlEntries, 1, 1)
                \cup {<<a, b>> : a \in {e \in CtlEntries : e.NumPartitions = 1
                                           /\ e.ReplicationFactor \in {1, MaxReplicationFactor}},
                                 b \in {e \in CtlEntries : e.Topic = "u"}},
       env \in CtlEnvs :
        /\ pc = "recv"
        /\ Run(Request([kind |-> "CreateTopicRequests", Requests |-> reqs], 1, 1), env)

\* DeleteTopics requests; the controller is asked to delete topic u alone.
DeleteTopics ==
    \E topics \in SeqsOf(Topics, 1, MaxEntries), fault \in {"none", "raft1"} :
        /\ raftLeader => topics = <<"u">>
        /\ Run(Request([kind |-> "DeleteTopicsRequest", Topics |-> topics], 1, 1),
               Env(NoRnd, fault, FALSE))

InitCtl == Init /\ id = 1 /\ devMode = FALSE

Next ==
    \/ RaftStateChange
    \/ MemberEvent
    \/ CreateTopics
    \/ DeleteTopics

Spec == InitCtl /\ [][Next]_vars

\* -------------------------------------------- specification of the dispatcher
\* One request of every kind Run's switch has a case for, and a StopReplica
\* request, which the API versions table lists and the switch has no case for.
RunBodies ==
    <<[kind |-> "APIVersionsRequest"],
     [kind |-> "ProduceRequest",
      TopicData |-> <<[Topic |-> "t",
                       Data |-> <<[Partition |-> 0, RecordSet |-> <<"a">>]>>]>>],
     [kind |-> "FetchRequest", MinBytes |-> 1, MaxWaitTime |-> 0,
      Topics |-> <<[Topic |-> "t",
                    Partitions |-> <<[Partition |-> 0, FetchOffset |-> 0,
                                      MaxBytes |-> MaxLogLen]>>]>>],
     [kind |-> "OffsetsRequest",
      Topics |-> <<[Topic |-> "t",
                    Partitions |-> <<[Partition |-> 0, Timestamp |-> -1]>>]>>],
     [kind |-> "MetadataRequest", Topics |-> <<>>],
     [kind |-> "CreateTopicRequests",
      Requests |-> <<[Topic |-> "t", NumPartitions |-> 1, ReplicationFactor |-> 1]>>],
     [kind |-> "DeleteTopicsRequest", Topics |-> <<"t">>],
     [kind |-> "LeaderAndISRRequest", ControllerID |-> 1,
      PartitionStates |-> <<PartitionStateFor("t", 0, 1, <<1>>)>>],
     [kind |-> "StopReplicaRequest"]>>

\* The server hands Run the next request of a connection.
Serve ==
    \E k \in 1..Len(RunBodies), corr \in CorrelationIds, cn \in Conns :
        /\ pc = "recv"
        /\ Run(Request(RunBodies[k], corr, cn), Env(NoRnd, "none", FALSE))

InitRun == Init /\ id = 1 /\ devMode = FALSE

NextRun ==
    \/ RaftStateChange
    \/ MemberEvent
    \/ Serve

SpecRun == InitRun /\ [][NextRun]_vars

\* ------------------------------------- specification of the role machine
\* The PartitionStates of the data path with every leader epoch; the
\* controller's ZKVersion stays 0.
RolePartitionStates ==
    {[p EXCEPT !.LeaderEpoch = e] : p \in DataPartitionStates, e \in 0..MaxLeaderEpoch}

\* A LeaderAndISR request of one PartitionState, from the controller.
LeaderAndISRRole ==
    \E p \in RolePartitionStates, fault \in {"none", "log"} :
        /\ pc = "recv"
        /\ Run(Request([kind |-> "LeaderAndISRRequest", ControllerID |-> 2,
                        PartitionStates |-> <<p>>], 1, 1),
               Env(NoRnd, fault, FALSE))

\* Broker 1, in dev mode or not, its requests and its shutdown.
InitRole == Init /\ id = 1

NextRole ==
    \/ FsmCommit
    \/ LeaderAndISRRole
    \/ Shutdown

SpecRole == InitRole /\ [][NextRole]_vars

\* ------------------------------- specification of role changes over a log
\* Broker 1, in dev mode or not: LeaderAndISR requests and the Produce
\* requests that fill the logs the role changes truncate.
NextFollow ==
    \/ FsmCommit
    \/ LeaderAndISR
    \/ Produce

SpecFollow == InitRole /\ [][NextFollow]_vars

\* ----------------------------------- specification of the server lookup
\* The Raft address of broker i: its host, and one of two ports, the second
\* for a broker that came back on another port.
RaftAddrOf(i, g) == "10.0.0." \o ToString(i) \o ":" \o ToString(9092 + g)

LookupServers == {[ID |-> i, RaftAddr |-> RaftAddrOf(i, g)] : i \in BrokerIds, g \in 0..1}

\* The ids a caller asks ServerAddr for, and the addresses it asks Server for.
LookupIds == (-1)..MaxBrokerId
LookupAddrs == {s.RaftAddr : s \in LookupServers} \cup {""}

\* One server is known under an id at a time: a broker that comes back under
\* another address is added after its old entry was removed.
OneServerPerID(server) == \A t \in added : t.ID = server.ID => t = server

AddServer ==
    \E server \in LookupServers :
        /\ OneServerPerID(server)
        /\ serverLookup' = AddServerTo(serverLookup, server)
        /\ added' = added \cup {server}
        /\ lookupCall' = Nil
        /\ UNCHANGED <<id, devMode, raftLeader, serfMembers, brokerLookup, fsmTopics,
                       fsmPartitions, replicaLookup, logs, pc, conn, header, resp,
                       responsec, last, built, lifecycle>>

RemoveServer ==
    \E server \in LookupServers :
        /\ OneServerPerID(server)
        /\ serverLookup' = RemoveServerFrom(serverLookup, server)
        /\ added' = added \ {server}
        /\ lookupCall' = Nil
        /\ UNCHANGED <<id, devMode, raftLeader, serfMembers, brokerLookup, fsmTopics,
                       fsmPartitions, replicaLookup, logs, pc, conn, header, resp,
                       responsec, last, built, lifecycle>>

ServerAddr ==
    \E i \in LookupIds :
        /\ lookupCall' = [op |-> "ServerAddr", arg |-> i,
                          result |-> ServerAddrOf(serverLookup, ServerID(i))]
        /\ UNCHANGED <<id, devMode, raftLeader, serfMembers, brokerLookup, fsmTopics,
                       fsmPartitions, replicaLookup, logs, pc, conn, header, resp,
                       responsec, last, built, lifecycle, serverLookup, added>>

Server ==
    \E addr \in LookupAddrs :
        /\ lookupCall' = [op |-> "Server", arg |-> addr,
                          result |-> ServerOf(serverLookup, ServerAddress(addr))]
        /\ UNCHANGED <<id, devMode, raftLeader, serfMembers, brokerLookup, fsmTopics,
                       fsmPartitions, replicaLookup, logs, pc, conn, header, resp,
                       responsec, last, built, lifecycle, serverLookup, added>>

InitLookup == Init /\ id = 1 /\ devMode = FALSE

NextLookup ==
    \/ AddServer
    \/ RemoveServer
    \/ ServerAddr
    \/ Server

SpecLookup == InitLookup /\ [][NextLookup]_vars

\* =================================================================== claims
\* The last iteration of Run handled a request of the given kind.
Handled(kind) == last # Nil /\ last.request.Request.kind = kind

\* The body of the response Run sent for the last request.
SentBody == responsec.Response.Body

\* Entry i of the last CreateTopics request names a topic that is new when
\* the entry is reached, with at least one partition and a replication
\* factor from 1 to the number of gossip members.
ValidNewTopic(i) ==
    LET reqs == last.request.Request.Requests
    IN /\ last.pre.fsmTopics[reqs[i].Topic] = Nil
       /\ \A j \in 1..(i - 1) : reqs[j].Topic # reqs[i].Topic
       /\ reqs[i].NumPartitions >= 1
       /\ reqs[i].ReplicationFactor >= 1
       /\ reqs[i].ReplicationFactor <= Cardinality(last.pre.serfMembers)

\* C1: a CreateTopics or DeleteTopics request handled by a broker whose Raft
\* is not leader is answered with NotController for every entry of the
\* request, proposes no Raft command and dispatches no LeaderAndISR; the
\* controller answers a valid new topic with ErrNone (when no proposal of the
\* request failed).
C1_NotControllerRejected ==
    /\ (Handled("CreateTopicRequests") /\ ~last.pre.raftLeader) =>
          LET reqs == last.request.Request.Requests
          IN /\ last.out = "ok"
             /\ SentBody.kind = "CreateTopicsResponse"
             /\ Len(SentBody.TopicErrorCodes) = Len(reqs)
             /\ \A i \in 1..Len(reqs) :
                    SentBody.TopicErrorCodes[i] = TopicErrorCode(reqs[i].Topic, ErrNotController)
             /\ last.post.proposed = <<>>
             /\ last.post.dispatched = <<>>
    /\ (Handled("DeleteTopicsRequest") /\ ~last.pre.raftLeader) =>
          LET topics == last.request.Request.Topics
          IN /\ last.out = "ok"
             /\ SentBody.kind = "DeleteTopicsResponse"
             /\ Len(SentBody.TopicErrorCodes) = Len(topics)
             /\ \A i \in 1..Len(topics) :
                    SentBody.TopicErrorCodes[i] = TopicErrorCode(topics[i], ErrNotController)
             /\ last.post.proposed = <<>>
             /\ last.post.dispatched = <<>>
    /\ (Handled("CreateTopicRequests") /\ last.pre.raftLeader /\ last.out = "ok"
            /\ last.post.raftErrs = 0) =>
          \A i \in 1..Len(last.request.Request.Requests) :
              ValidNewTopic(i) => SentBody.TopicErrorCodes[i].ErrorCode = ErrNone

\* A two-entry CreateTopics request was answered by a broker that is not the
\* controller.
C1_Witness ==
    /\ Handled("CreateTopicRequests")
    /\ ~last.pre.raftLeader
    /\ Len(last.request.Request.Requests) = 2
    /\ last.out = "ok"
    /\ \A i \in 1..2 : SentBody.TopicErrorCodes[i].ErrorCode = ErrNotController

\* The entries of the last CreateTopics request.
LastEntries == last.request.Request.Requests

\* Entry i of the last CreateTopics request asks for more replicas than there
\* are gossip members.
RFTooLarge(i) == LastEntries[i].ReplicationFactor > Cardinality(last.pre.serfMembers)

\* The FSM rows and the local replicas of a topic are as before the request.
TopicUntouched(topic) ==
    /\ last.post.fsmTopics[topic] = last.pre.fsmTopics[topic]
    /\ \A pid \in PartIds :
          /\ last.post.fsmPartitions[<<topic, pid>>] = last.pre.fsmPartitions[<<topic, pid>>]
          /\ last.post.replicaLookup[<<topic, pid>>] = last.pre.replicaLookup[<<topic, pid>>]

\* C2: on the controller a CreateTopics entry whose replication factor
\* exceeds the number of live members is answered InvalidReplicationFactor,
\* and the rejection proposes nothing, leaves the FSM unchanged and creates
\* no local replica.
C2_InvalidReplicationFactor ==
    (Handled("CreateTopicRequests") /\ last.pre.raftLeader) =>
        /\ \A i \in 1..Len(LastEntries) : RFTooLarge(i) =>
              /\ last.out = "ok" =>
                    SentBody.TopicErrorCodes[i] =
                        TopicErrorCode(LastEntries[i].Topic, ErrInvalidReplicationFactor)
              /\ (\A j \in 1..Len(LastEntries) :
                      LastEntries[j].Topic = LastEntries[i].Topic => RFTooLarge(j))
                    => TopicUntouched(LastEntries[i].Topic)
        /\ (\A i \in 1..Len(LastEntries) : RFTooLarge(i)) =>
              /\ last.out = "ok"
              /\ last.post.proposed = <<>>
              /\ last.post.dispatched = <<>>
              /\ last.post.fsmTopics = last.pre.fsmTopics
              /\ last.post.fsmPartitions = last.pre.fsmPartitions
              /\ last.post.replicaLookup = last.pre.replicaLookup
              /\ last.post.logs = last.pre.logs

\* The controller of a one-member cluster rejected a new topic of
\* replication factor 3.
C2_Witness ==
    /\ Handled("CreateTopicRequests")
    /\ last.pre.raftLeader
    /\ Cardinality(last.pre.serfMembers) = 1
    /\ Len(LastEntries) = 1
    /\ LastEntries[1].ReplicationFactor = 3
    /\ last.pre.fsmTopics[LastEntries[1].Topic] = Nil
    /\ SentBody.TopicErrorCodes[1].ErrorCode = ErrInvalidReplicationFactor

\* C3 as stated: on the controller an entry naming a topic the FSM holds is
\* answered TopicAlreadyExists whatever its replication factor.
C3_ExistsCheckedFirst ==
    (Handled("CreateTopicRequests") /\ last.pre.raftLeader /\ last.out = "ok") =>
        \A i \in 1..Len(LastEntries) :
            last.pre.fsmTopics[LastEntries[i].Topic] # Nil =>
                SentBody.TopicErrorCodes[i].ErrorCode = ErrTopicAlreadyExists

\* C3 amended: on the controller an entry naming a topic the FSM holds is
\* answered TopicAlreadyExists when its replication factor does not exceed
\* the number of live members and InvalidReplicationFactor when it does;
\* either way nothing is proposed for it and the topic, its partitions and
\* its replicas stay as they are.
C3_ExistingTopicRejected ==
    (Handled("CreateTopicRequests") /\ last.pre.raftLeader) =>
        /\ \A i \in 1..Len(LastEntries) :
              last.pre.fsmTopics[LastEntries[i].Topic] # Nil =>
                  /\ last.out = "ok" =>
                        SentBody.TopicErrorCodes[i].ErrorCode =
                            IF RFTooLarge(i) THEN ErrInvalidReplicationFactor
                            ELSE ErrTopicAlreadyExists
                  /\ TopicUntouched(LastEntries[i].Topic)
        /\ (\A i \in 1..Len(LastEntries) : last.pre.fsmTopics[LastEntries[i].Topic] # Nil) =>
              /\ last.out = "ok"
              /\ last.post.proposed = <<>>
              /\ last.post.dispatched = <<>>

\* The controller rejected a second creation of a topic whose replication
\* factor the cluster could hold.
C3_Witness ==
    /\ Handled("CreateTopicRequests")
    /\ last.pre.raftLeader
    /\ Len(LastEntries) = 1
    /\ last.pre.fsmTopics[LastEntries[1].Topic] # Nil
    /\ ~RFTooLarge(1)
    /\ LastEntries[1].ReplicationFactor >= 1
    /\ SentBody.TopicErrorCodes[1].ErrorCode = ErrTopicAlreadyExists

\* The partitions of the last buildPartitions call that returned.
BuiltPartitions == IF built # Nil /\ built.out = "ok" THEN Range(built.ps) ELSE {}

\* C4: every partition topic creation builds has Leader in ISR, ISR within
\* AR, AR non-empty, ISR equal to AR and as many assigned replicas as the
\* replication factor asked for.
C4_AssignmentShape ==
    \A p \in BuiltPartitions :
        /\ p.Leader \in Range(p.ISR)
        /\ Range(p.ISR) \subseteq Range(p.AR)
        /\ p.AR # <<>>
        /\ p.ISR = p.AR
        /\ Len(p.AR) = built.replicationFactor

\* C5: the leader of built partition i is members[i mod N], and AR lists
\* pairwise distinct ids of current members, the leader first.
C5_AssignmentMembers ==
    \A p \in BuiltPartitions :
        /\ p.Leader = built.mems[(p.ID % Len(built.mems)) + 1]
        /\ p.AR[1] = p.Leader
        /\ \A a, b \in 1..Len(p.AR) : a # b => p.AR[a] # p.AR[b]
        /\ Range(p.AR) \subseteq Range(built.mems)

\* The kind of body the handler of a request kind computes; "none" for a
\* kind without a handler.
ResponseKindOf(kind) ==
    CASE kind = "APIVersionsRequest" -> "APIVersionsResponse"
      [] kind = "ProduceRequest" -> "ProduceResponses"
      [] kind = "FetchRequest" -> "FetchResponses"
      [] kind = "OffsetsRequest" -> "OffsetsResponse"
      [] kind = "MetadataRequest" -> "MetadataResponse"
      [] kind = "CreateTopicRequests" -> "CreateTopicsResponse"
      [] kind = "DeleteTopicsRequest" -> "DeleteTopicsResponse"
      [] kind = "LeaderAndISRRequest" -> "LeaderAndISRResponse"
      [] OTHER -> "none"

\* C6: for every request Run consumes, of any kind, it sends one response
\* before it consumes the next, with the correlation id and the connection
\* of that request and a body its handler computed for that request.
C6_OneResponsePerRequest ==
    last # Nil =>
        /\ last.out = "ok"
        /\ pc = "recv"
        /\ responsec.Conn = last.request.Conn
        /\ responsec.Response.CorrelationID = last.request.Header.CorrelationID
        /\ SentBody # Nil
        /\ SentBody.kind = ResponseKindOf(last.request.Request.kind)

\* The (topic, partition) pairs the last Produce, Fetch or Offsets request
\* names, as <<i, j>>: partition j of topic i, and what the request and the
\* broker before it hold for such a pair.
NamedIn(topics, Parts(_)) ==
    {ij \in (1..Len(topics)) \X (1..MaxEntries) : ij[2] <= Len(Parts(topics[ij[1]]))}
ReplicaBefore(topic, partition) == last.pre.replicaLookup[<<topic, partition>>]
LogBefore(replica) == last.pre.logs[replica.Log.path]
LogAfter(replica) == last.post.logs[replica.Log.path]

\* The entry of the last response for partition j of topic i.
SentEntry(ij) == SentBody.Responses[ij[1]].PartitionResponses[ij[2]]

ProduceData(t) == t.Data
ProduceNamed == NamedIn(last.request.Request.TopicData, ProduceData)
ProduceTopic(ij) == last.request.Request.TopicData[ij[1]]
ProducePart(ij) == ProduceTopic(ij).Data[ij[2]]

\* C7: a Produce for a partition whose local replica is not the leader is
\* answered NotLeaderForPartition and appends nothing; a Produce for a
\* partition without a local replica is answered ReplicaNotAvailable; only a
\* leader replica appends.  (Stated for topics the FSM holds.)
C7_ProduceOnLeaderOnly ==
    (Handled("ProduceRequest") /\ last.out = "ok") =>
        \A ij \in ProduceNamed :
            LET replica == ReplicaBefore(ProduceTopic(ij).Topic, ProducePart(ij).Partition)
            IN last.pre.fsmTopics[ProduceTopic(ij).Topic] # Nil =>
                  /\ replica = Nil => SentEntry(ij).ErrorCode = ErrReplicaNotAvailable
                  /\ (replica # Nil /\ replica.Partition.Leader # last.pre.id) =>
                         /\ SentEntry(ij).ErrorCode = ErrNotLeaderForPartition
                         /\ last.post.logs = last.pre.logs
                  /\ last.post.logs # last.pre.logs =>
                         replica # Nil /\ replica.Partition.Leader = last.pre.id

FetchPartitions(t) == t.Partitions
FetchNamed == NamedIn(last.request.Request.Topics, FetchPartitions)
FetchTopic(ij) == last.request.Request.Topics[ij[1]]
FetchPart(ij) == FetchTopic(ij).Partitions[ij[2]]

\* The replica follows another broker: becomeFollower gave it a replicator
\* and becomeLeader has not run since.
IsFollower(replica) == replica.Replicator # Nil

\* C8: a Fetch returns record bytes only from a replica that is the leader;
\* a follower, also one that led the partition earlier, answers
\* NotLeaderForPartition, and a broker without a replica ReplicaNotAvailable.
C8_FetchOnLeaderOnly ==
    (Handled("FetchRequest") /\ last.out = "ok") =>
        \A ij \in FetchNamed :
            LET replica == ReplicaBefore(FetchTopic(ij).Topic, FetchPart(ij).Partition)
            IN /\ replica = Nil => SentEntry(ij).ErrorCode = ErrReplicaNotAvailable
               /\ (replica # Nil /\ IsFollower(replica)) =>
                      /\ SentEntry(ij).ErrorCode = ErrNotLeaderForPartition
                      /\ SentEntry(ij).RecordSet = <<>>
               /\ SentEntry(ij).RecordSet # <<>> =>
                      /\ replica # Nil
                      /\ replica.Partition.Leader = last.pre.id
                      /\ ~IsFollower(replica)

\* C9: a Fetch on a leader replica from an offset below the oldest offset of
\* the log is answered OffsetOutOfRange, without record bytes.
C9_FetchBelowOldest ==
    (Handled("FetchRequest") /\ last.out = "ok") =>
        \A ij \in FetchNamed :
            LET replica == ReplicaBefore(FetchTopic(ij).Topic, FetchPart(ij).Partition)
            IN (/\ replica # Nil
                /\ replica.Partition.Leader = last.pre.id
                /\ replica.Log # Nil
                /\ FetchPart(ij).FetchOffset < OldestOffset(LogBefore(replica))) =>
                   /\ SentEntry(ij).ErrorCode = ErrOffsetOutOfRange
                   /\ SentEntry(ij).RecordSet = <<>>

OffsetsNamed == NamedIn(last.request.Request.Topics, FetchPartitions)

\* The replica of every partition the last Offsets request names, if there
\* is one, has an open log.
OffsetsLogsOpen ==
    \A ij \in OffsetsNamed :
        LET replica == ReplicaBefore(FetchTopic(ij).Topic, FetchPart(ij).Partition)
        IN replica # Nil => replica.Log # Nil

LastStates == last.request.Request.PartitionStates

\* The local replica of PartitionState p before and after the last request.
RoleBefore(p) == last.pre.replicaLookup[<<p.Topic, p.Partition>>]
RoleAfter(p) == last.post.replicaLookup[<<p.Topic, p.Partition>>]

\* The last request told a started replica that leads its partition to follow
\* p.Leader, another member of the partition's replica set.
LeaderToldToFollow(p) ==
    /\ RoleBefore(p) # Nil
    /\ RoleBefore(p).Log # Nil
    /\ RoleBefore(p).Partition.Leader = last.pre.id
    /\ p.Leader # last.pre.id
    /\ contains(RoleBefore(p).Partition.AR, p.Leader)
    /\ contains(p.Replicas, last.pre.id)

\* C11: a broker that leads a partition and receives a PartitionState naming
\* another member B of the replica set as leader becomes a follower: it is no
\* longer the recorded leader, its log does not reach above the high-water
\* mark it had before (the newest offset, which is what the broker reports as
\* high-water mark), and it has a replicator that pulls from B.
C11_LeaderToFollower ==
    Handled("LeaderAndISRRequest") /\ last.out = "ok" =>
        \A i \in DOMAIN LastStates :
            LeaderToldToFollow(LastStates[i]) =>
                /\ RoleAfter(LastStates[i]).Partition.Leader # last.pre.id
                /\ RoleAfter(LastStates[i]).Replicator # Nil
                /\ RoleAfter(LastStates[i]).Replicator.leader = LastStates[i].Leader
                /\ NewestOffset(LogOf(last.post, RoleAfter(LastStates[i]).Log))
                       <= NewestOffset(LogOf(last.pre, RoleBefore(LastStates[i]).Log))

\* The entries of the LeaderAndISR response sent for the last request.
LeaderAndISREntries == SentBody.Partitions

\* PartitionState i is the last one of the request for its partition.
LastForPartition(i) ==
    \A j \in DOMAIN LastStates :
        j > i => \/ LastStates[j].Topic # LastStates[i].Topic
                 \/ LastStates[j].Partition # LastStates[i].Partition

\* C12: after a LeaderAndISR request the local replica of a partition this
\* broker replicates records the Leader, AR and ISR of the last PartitionState
\* processed for the partition, and a follower's replicator pulls from that
\* PartitionState's leader, whatever earlier PartitionStates said.
C12_LastPartitionStateWins ==
    Handled("LeaderAndISRRequest") /\ last.out = "ok" =>
        \A i \in DOMAIN LastStates :
            /\ LastForPartition(i)
            /\ LeaderAndISREntries[i].ErrorCode = ErrNone
            /\ contains(LastStates[i].Replicas, last.pre.id)
            => /\ RoleAfter(LastStates[i]).Partition.Leader = LastStates[i].Leader
               /\ RoleAfter(LastStates[i]).Partition.AR = LastStates[i].Replicas
               /\ RoleAfter(LastStates[i]).Partition.ISR = LastStates[i].ISR
               /\ LastStates[i].Leader # last.pre.id /\ ~last.pre.devMode =>
                      /\ RoleAfter(LastStates[i]).Replicator # Nil
                      /\ RoleAfter(LastStates[i]).Replicator.leader = LastStates[i].Leader

\* The local replicas of the broker.
LocalReplicas == {k \in DOMAIN replicaLookup : replicaLookup[k] # Nil}

\* The role of a replica as the broker records it: it leads the partition, or
\* it is a started replica of a partition led by another broker.
LeaderRole(replica) == replica.Partition.Leader = id
FollowerRole(replica) ==
    /\ replica.Partition.Leader # id
    /\ replica.Log # Nil
    /\ contains(replica.Partition.AR, id)

\* C13: a local replica's Replicator handle is non-nil if and only if the
\* replica is a follower and the broker is not in dev mode; a leader replica
\* has no replicator, and in dev mode no replica has one.
C13_ReplicatorIffFollower ==
    \A k \in LocalReplicas :
        /\ replicaLookup[k].Replicator # Nil <=> FollowerRole(replicaLookup[k]) /\ ~devMode
        /\ LeaderRole(replicaLookup[k]) => replicaLookup[k].Replicator = Nil
        /\ devMode => replicaLookup[k].Replicator = Nil

\* The replicas the FSM lists for a partition of a topic it holds.
FsmAR(k) ==
    IF fsmTopics[k[1]] = Nil \/ k[2] \notin DOMAIN fsmTopics[k[1]].Partitions THEN <<>>
    ELSE fsmTopics[k[1]].Partitions[k[2]]

\* C14: the replica registry holds a Replica for (topic, partition) only if
\* this broker's id is in the partition's AR; a PartitionState rejected at
\* start-replica leaves no Replica registered for its partition.
C14_ReplicaOnlyIfAssigned ==
    /\ \A k \in LocalReplicas : contains(FsmAR(k), id)
    /\ Handled("LeaderAndISRRequest") /\ last.out = "ok" =>
           \A i \in DOMAIN LastStates :
               /\ RoleBefore(LastStates[i]) = Nil
               /\ LeaderAndISREntries[i].ErrorCode # ErrNone
               => RoleAfter(LastStates[i]) = Nil

\* The response sent for the last request has one entry for every partition
\* the request names under Parts, and the entry of a partition this broker
\* had no replica of carries an error code.
EntryPerPartition(topics, Parts(_)) ==
    /\ Len(SentBody.Responses) = Len(topics)
    /\ \A i \in DOMAIN topics :
           Len(SentBody.Responses[i].PartitionResponses) = Len(Parts(topics[i]))
    /\ \A ij \in NamedIn(topics, Parts) :
           ReplicaBefore(topics[ij[1]].Topic, Parts(topics[ij[1]])[ij[2]].Partition) = Nil
               => SentEntry(ij).ErrorCode # ErrNone

\* C15: the response to a Produce, Fetch, Offsets or LeaderAndISR request has
\* exactly one entry for every partition the request names, and a partition
\* whose handling failed because its replica is missing is neither left out
\* of the response nor reported as ErrNone.
C15_EntryPerPartition ==
    last # Nil /\ last.out = "ok" =>
        /\ Handled("ProduceRequest") =>
               EntryPerPartition(last.request.Request.TopicData, ProduceData)
        /\ Handled("FetchRequest") =>
               EntryPerPartition(last.request.Request.Topics, FetchPartitions)
        /\ Handled("OffsetsRequest") =>
               EntryPerPartition(last.request.Request.Topics, FetchPartitions)
        /\ Handled("LeaderAndISRRequest") =>
               /\ Len(LeaderAndISREntries) = Len(LastStates)
               /\ \A i \in DOMAIN LastStates :
                      /\ LeaderAndISREntries[i].Topic = LastStates[i].Topic
                      /\ LeaderAndISREntries[i].Partition = LastStates[i].Partition

\* The last CreateTopics request got through buildPartitions, if it came to
\* call it.
AssignmentBuilt == last.post.built = Nil \/ last.post.built.out = "ok"

\* C16: no failure on the controller's topic-creation path crashes the
\* broker: when a Raft proposal fails, or a LeaderAndISR request handled
\* locally or sent to another broker fails, the handler still returns, the
\* client is answered Unknown for the topic and the dispatcher serves on.
C16_CreateTopicNeverCrashes ==
    Handled("CreateTopicRequests") /\ AssignmentBuilt =>
        /\ last.out = "ok"
        /\ pc = "recv"
        /\ Len(SentBody.TopicErrorCodes) = Len(LastEntries)
        /\ last.post.raftErrs > 0 =>
               \E i \in DOMAIN LastEntries :
                   SentBody.TopicErrorCodes[i].ErrorCode = ErrUnknown

\* C17: handling a Fetch terminates for every MinBytes and MaxWaitTime and
\* every log content, also when the log holds fewer than MinBytes bytes from
\* FetchOffset: the byte loop is left and the dispatcher is not held by it.
C17_FetchTerminates ==
    Handled("FetchRequest") => last.out # "spin" /\ pc # "spin"

\* Every replicator of a local replica is closed, gossip and Raft are shut
\* down, the Raft transport and the store are closed, and the shutdown channel
\* has been closed once.
ShutdownComplete ==
    /\ \A k \in LocalReplicas :
           replicaLookup[k].Replicator # Nil => ~replicaLookup[k].Replicator.running
    /\ lifecycle.serf = "shutdown"
    /\ lifecycle.raft = "shutdown"
    /\ lifecycle.raftTransport = "closed"
    /\ lifecycle.raftStore = "closed"
    /\ lifecycle.shutdownCh = 1

\* C18: when Shutdown completes, every replicator of every local follower
\* replica has been closed, gossip and Raft are shut down and the Raft
\* transport and store closed; a second call of Shutdown changes nothing and
\* closes the shutdown channel no second time.
C18_ShutdownClosesEverything ==
    [][/\ ~lifecycle.shutdown /\ lifecycle'.shutdown => ShutdownComplete'
       /\ lifecycle.shutdown => lifecycle' = lifecycle]_vars

\* The servers added to the lookup and not removed since that have the id,
\* and those that have the address.
AddedWithID(i) == {s \in added : s.ID = i}
AddedWithAddr(addr) == {s \in added : s.RaftAddr = addr}

ToldToLead(i) ==
    /\ LastStates[i].Leader = last.pre.id
    /\ \/ RoleBefore(LastStates[i]) = Nil
       \/ RoleBefore(LastStates[i]).Partition.Leader # last.pre.id
    /\ LeaderAndISREntries[i].ErrorCode = ErrNone
    /\ Len(LastStates) = 1

\* C20: a PartitionState p with p.Leader = self, handled for a replica that is
\* new or whose recorded leader is not self, leaves the replica without a
\* replicator and with Leader, AR, ISR and leader epoch equal to p's Leader,
\* Replicas, ISR and leader epoch.
C20_BecomeLeader ==
    Handled("LeaderAndISRRequest") /\ last.out = "ok" =>
        \A i \in DOMAIN LastStates :
            ToldToLead(i) =>
                /\ RoleAfter(LastStates[i]).Replicator = Nil
                /\ RoleAfter(LastStates[i]).Partition.Leader = LastStates[i].Leader
                /\ RoleAfter(LastStates[i]).Partition.AR = LastStates[i].Replicas
                /\ RoleAfter(LastStates[i]).Partition.ISR = LastStates[i].ISR
                /\ RoleAfter(LastStates[i]).Partition.LeaderEpoch = LastStates[i].LeaderEpoch

\* ------------------------------------------------------- steps of a handler
\* The steps the handler of the last request took, in program order.
LastSteps == last.post.steps

\* Steps of the role machine: their key is a (topic, partition) pair.
RoleOps ==
    {"Lock", "Unlock", "commitlog.New", "Write", "Replicator.Close", "Log.Truncate",
     "NewReplicator", "Replicate"}

\* Step n of the last handler is the given operation on the replica of key.
StepIs(n, op, key) ==
    /\ LastSteps[n].op = op
    /\ LastSteps[n].op \in RoleOps
    /\ LastSteps[n].key = key

\* The replicator loops of the replica of key that run after the first n
\* steps of the last handler: Replicate starts one, and Close ends those
\* running.
RECURSIVE RunningLoops(_, _)
RunningLoops(key, n) ==
    IF n = 0
        THEN IF /\ last.pre.replicaLookup[key] # Nil
                /\ last.pre.replicaLookup[key].Replicator # Nil
                /\ last.pre.replicaLookup[key].Replicator.running
             THEN 1 ELSE 0
    ELSE IF StepIs(n, "Replicate", key) THEN RunningLoops(key, n - 1) + 1
    ELSE IF StepIs(n, "Replicator.Close", key) THEN 0
    ELSE RunningLoops(key, n - 1)

\* Step n creates the replicator of a become-follower step for PartitionState
\* p: the previous replicator, if there was one, was closed before the log was
\* truncated to the newest offset it had, no loop ran from the close to the
\* truncation, the replicator targets p.Leader and is created after the
\* truncation, and it is started, afterwards, unless the broker is in dev
\* mode.
FollowerStepOrdered(n, p) ==
    LET key == <<p.Topic, p.Partition>>
        stored == last.pre.logs[RoleAfter(p).Log.path]
    IN /\ LastSteps[n].arg = p.Leader
       /\ \E t \in 1..(n - 1) :
              /\ StepIs(t, "Log.Truncate", key)
              /\ LastSteps[t].arg = IF stored = Nil THEN 0 ELSE NewestOffset(stored)
              /\ RunningLoops(key, t - 1) = 0
              /\ RoleBefore(p) # Nil /\ RoleBefore(p).Replicator # Nil =>
                     \E c \in 1..(t - 1) :
                         /\ StepIs(c, "Replicator.Close", key)
                         /\ \A m \in c..t : RunningLoops(key, m) = 0
       /\ \A r \in 1..n : ~StepIs(r, "Replicate", key)
       /\ (\E r \in (n + 1)..Len(LastSteps) : StepIs(r, "Replicate", key))
              <=> ~last.pre.devMode

\* C21: the become-follower step is ordered: the previous replicator, if any,
\* is closed first, then the log is truncated to the high-water mark, and only
\* then a replicator targeting p.Leader is created and, unless in dev mode,
\* started; no replicator loop runs between the close and the truncation, and
\* at no step does a replica have more than one running replicator.
C21_BecomeFollowerOrdered ==
    Handled("LeaderAndISRRequest") /\ last.out = "ok" /\ Len(LastStates) = 1 =>
        /\ \A n \in DOMAIN LastSteps :
               StepIs(n, "NewReplicator", <<LastStates[1].Topic, LastStates[1].Partition>>)
                   => FollowerStepOrdered(n, LastStates[1])
        /\ \A n \in 0..Len(LastSteps) :
               RunningLoops(<<LastStates[1].Topic, LastStates[1].Partition>>, n) <= 1

\* A follower with a running replicator was told to follow another leader:
\* its replicator was closed and a new one created and started.
C21_Witness ==
    /\ Handled("LeaderAndISRRequest")
    /\ last.out = "ok"
    /\ Len(LastStates) = 1
    /\ RoleBefore(LastStates[1]) # Nil
    /\ RoleBefore(LastStates[1]).Replicator # Nil
    /\ RoleBefore(LastStates[1]).Replicator.running
    /\ NewestOffset(LogBefore(RoleBefore(LastStates[1]))) > 0
    /\ \E c, n, r \in DOMAIN LastSteps :
           /\ c < n /\ n < r
           /\ LastSteps[c].op = "Replicator.Close"
           /\ LastSteps[n].op = "NewReplicator"
           /\ LastSteps[r].op = "Replicate"

\* Step n of the last handler is the commit of RegisterTopic for the topic,
\* the commit of a RegisterPartition for a partition of it, or the dispatch of
\* a LeaderAndISR request that lists partitions of it.
RegisterTopicAt(n, topic) ==
    /\ LastSteps[n].op = "raftApply"
    /\ LastSteps[n].key = "RegisterTopic"
    /\ LastSteps[n].arg.cmd.Topic.Topic = topic
    /\ ~LastSteps[n].arg.err
RegisterPartitionAt(n, topic) ==
    /\ LastSteps[n].op = "raftApply"
    /\ LastSteps[n].key = "RegisterPartition"
    /\ LastSteps[n].arg.cmd.Partition.Topic = topic
    /\ ~LastSteps[n].arg.err
DispatchAt(n, topic) ==
    /\ LastSteps[n].op \in {"handleLeaderAndISR", "Client.LeaderAndISR"}
    /\ Len(LastSteps[n].arg) >= 1
    /\ LastSteps[n].arg[1].Topic = topic

\* The partitions of a topic in the FSM after the last request.
RegisteredPartitions(topic) == DOMAIN last.post.fsmTopics[topic].Partitions

\* The creation of the topic was ordered: RegisterTopic once and before every
\* RegisterPartition, a RegisterPartition for every partition before every
\* dispatch, and one LeaderAndISR request listing every partition for every
\* broker of the lookup, handled directly on this broker and sent over a
\* client to the others.
CreationOrdered(topic) ==
    LET N == DOMAIN LastSteps
    IN /\ Cardinality({a \in N : RegisterTopicAt(a, topic)}) = 1
       /\ \A a, n \in N : RegisterTopicAt(a, topic) /\ RegisterPartitionAt(n, topic) => a < n
       /\ \A pid \in RegisteredPartitions(topic) :
              \E n \in N : /\ RegisterPartitionAt(n, topic)
                           /\ LastSteps[n].arg.cmd.Partition.ID = pid
       /\ \A n, d \in N : RegisterPartitionAt(n, topic) /\ DispatchAt(d, topic) => n < d
       /\ \A b \in last.pre.brokerLookup :
              /\ Cardinality({d \in N : DispatchAt(d, topic) /\ LastSteps[d].key = b}) = 1
              /\ \A d \in N :
                     DispatchAt(d, topic) /\ LastSteps[d].key = b =>
                         /\ (LastSteps[d].op = "handleLeaderAndISR") <=> (b = last.pre.id)
                         /\ {LastSteps[d].arg[k].Partition : k \in DOMAIN LastSteps[d].arg}
                                = RegisteredPartitions(topic)
       /\ \A d \in N : DispatchAt(d, topic) => LastSteps[d].key \in last.pre.brokerLookup

\* C22: in a successful topic creation RegisterTopic is committed before any
\* RegisterPartition, every partition's RegisterPartition before any
\* LeaderAndISR is dispatched, and one LeaderAndISR listing every partition of
\* the topic goes to every broker, directly to the controller itself and over
\* a client connection to the others; ErrNone is returned only after these.
C22_CreationOrdered ==
    Handled("CreateTopicRequests") /\ last.out = "ok" =>
        \A i \in DOMAIN LastEntries :
            /\ SentBody.TopicErrorCodes[i].ErrorCode = ErrNone
            /\ LastEntries[i].NumPartitions >= 1
            => CreationOrdered(LastEntries[i].Topic)

\* A topic of two partitions was created in a cluster of several brokers.
C22_Witness ==
    /\ Handled("CreateTopicRequests")
    /\ last.out = "ok"
    /\ Cardinality(last.pre.brokerLookup) >= 2
    /\ \E i \in DOMAIN LastEntries :
           /\ SentBody.TopicErrorCodes[i].ErrorCode = ErrNone
           /\ LastEntries[i].NumPartitions = 2
           /\ Cardinality(RegisteredPartitions(LastEntries[i].Topic)) = 2

\* The last request, of one PartitionState p, delivered p again to a replica
\* that an earlier delivery of p had registered and failed to start, and this
\* time start-replica let it through.
Redelivered(p) ==
    /\ RoleBefore(p) # Nil
    /\ RoleBefore(p).Log = Nil
    /\ RoleBefore(p).Partition.Leader = p.Leader
    /\ RoleBefore(p).Partition.AR = p.Replicas
    /\ RoleBefore(p).Partition.ISR = p.ISR
    /\ RoleBefore(p).Partition.LeaderEpoch = p.LeaderEpoch
    /\ contains(p.Replicas, last.pre.id)
    /\ LeaderAndISREntries[1].ErrorCode = ErrNone

\* C23: a PartitionState that failed at start-replica and is delivered again
\* once the cause is gone re-initializes the replica: it ends in the role it
\* would have as the first PartitionState received, leader, or follower with
\* a replicator that targets p.Leader.
C23_RedeliveryReinitializes ==
    Handled("LeaderAndISRRequest") /\ last.out = "ok" /\ Len(LastStates) = 1
    /\ Redelivered(LastStates[1]) =>
        /\ RoleAfter(LastStates[1]).Log # Nil
        /\ RoleAfter(LastStates[1]).Partition.Leader = LastStates[1].Leader
        /\ IF LastStates[1].Leader = last.pre.id
               THEN RoleAfter(LastStates[1]).Replicator = Nil
           ELSE /\ RoleAfter(LastStates[1]).Replicator # Nil
                /\ RoleAfter(LastStates[1]).Replicator.leader = LastStates[1].Leader

\* C24: no client request makes its handler panic: Produce, Fetch and Offsets
\* answer with a per-partition error code for a registered replica whose log
\* was never opened, and do not use its log.
C24_HandlersNeverPanic ==
    Handled("ProduceRequest") \/ Handled("FetchRequest") \/ Handled("OffsetsRequest") =>
        /\ last.out # "panic"
        /\ pc # "panic"

\* C25: two distinct local replicas, of different (topic, partition) pairs,
\* never share a commit log: each log has its own storage location, also for
\* the same partition id of two topics.
C25_OwnCommitLog ==
    \A j, k \in LocalReplicas :
        /\ j # k
        /\ replicaLookup[j].Log # Nil
        /\ replicaLookup[k].Log # Nil
        => replicaLookup[j].Log.path # replicaLookup[k].Log.path

\* The operations that block: opening a commit log, truncating a log, closing
\* a replicator, which waits for its loop to exit, and starting replication.
BlockingOps == {"commitlog.New", "Log.Truncate", "Replicator.Close", "Replicate"}

\* The broker lock is held when step n of the last handler is taken.
LockHeldAt(n) ==
    Cardinality({m \in 1..(n - 1) : LastSteps[m].op = "Lock"})
        > Cardinality({m \in 1..(n - 1) : LastSteps[m].op = "Unlock"})

\* C26: the broker lock is never held while a blocking operation is in
\* progress (opening or truncating a log, closing a replicator, starting
\* replication), and the role-state fields of a Replica (Leader, AR, ISR, Log,
\* Replicator) are written only while the lock is held.
C26_NoBlockingUnderLock ==
    Handled("LeaderAndISRRequest") /\ last.out = "ok" =>
        \A n \in DOMAIN LastSteps :
            /\ LastSteps[n].op \in BlockingOps => ~LockHeldAt(n)
            /\ LastSteps[n].op = "Write" => LockHeldAt(n)

\* The broker entries of the last Metadata response and their NodeIDs.
MetadataBrokers == SentBody.Brokers
MetadataNodeIDs == {MetadataBrokers[k].NodeID : k \in DOMAIN MetadataBrokers}

\* C27: a Metadata response lists one broker entry per live member, each with
\* the id of the member its host and port belong to, hence with pairwise
\* distinct NodeIDs, and every partition Leader it reports is the NodeID of
\* one of the entries.
C27_MetadataBrokers ==
    Handled("MetadataRequest") /\ last.out = "ok" =>
        /\ Len(MetadataBrokers) = Cardinality(last.pre.serfMembers)
        /\ \A k \in DOMAIN MetadataBrokers :
               MetadataBrokers[k].NodeID = MetadataBrokers[k].Addr
        /\ \A j, k \in DOMAIN MetadataBrokers :
               j # k => MetadataBrokers[j].NodeID # MetadataBrokers[k].NodeID
        /\ \A i \in DOMAIN SentBody.TopicMetadata :
               \A j \in DOMAIN SentBody.TopicMetadata[i].PartitionMetadata :
                   SentBody.TopicMetadata[i].PartitionMetadata[j].PartitionErrorCode = ErrNone
                       => SentBody.TopicMetadata[i].PartitionMetadata[j].Leader
                              \in MetadataNodeIDs

\* C28: partition assignment terminates for every creation that passes the
\* replication-factor check, whatever member list the controller holds: the
\* follower loop of each partition ends (the call does not spin) and the
\* member count it divides by is never zero (the call does not panic).
C28_AssignmentTerminates ==
    built # Nil => built.out # "spin" /\ built.out # "panic"

====
